---- MODULE Spec2Model ----
(***************************************************************************)
(* Stream assembly of anthropic-go (anthropic/util.go, current revision,   *)
(* lines 13-258): a producer goroutine scans the lines of a server-sent    *)
(* event stream, decodes each payload line, folds it into a Message and    *)
(* hands results to the consumer over an unbuffered channel.               *)
(*                                                                         *)
(* Conventions.  A Go string is a sequence of tokens (the empty string is  *)
(* <<>>, concatenation is \o); a string literal of the code is the         *)
(* one-token sequence S("...").  A pointer is a sequence of length at most *)
(* one (<<>> is nil).  A value decoded by encoding/json into interface{}   *)
(* is a record tagged by its dynamic type in field t.  A                   *)
(* map[string]interface{} is a function from its keys to such values.      *)
(***************************************************************************)
EXTENDS Integers, Sequences, FiniteSets, TLC

\* ------------------------------------------------------------------ bounds
\* Number of lines the reader may deliver before the stream must end.
MaxLines == 5

\* ------------------------------------------------------------ JSON values
S(s) == <<s>>

JStr(s) == [t |-> "str", v |-> s]
\* A JSON number i or i + 1/2 (f): decoded as float64.
JNum(i) == [t |-> "num", v |-> i, f |-> FALSE]
JHalf(i) == [t |-> "num", v |-> i, f |-> TRUE]
JMap(m) == [t |-> "map", v |-> m]
JNull == [t |-> "null"]

NoErr == "nil"

\* m[key].(string), m[key].(float64), m[key].(map[string]interface{})
IsStr(m, key) == key \in DOMAIN m /\ m[key].t = "str"
IsNum(m, key) == key \in DOMAIN m /\ m[key].t = "num"
IsMap(m, key) == key \in DOMAIN m /\ m[key].t = "map"

\* int(f) for a float64 f: the fraction is dropped.
int(n) == n.v

getString(m, key) == IF IsStr(m, key) THEN m[key].v ELSE <<>>

\* json.Marshal of a decoded value: the bytes of its JSON text.  The bytes
\* are kept as the value they spell, wrapped; NoBytes is a nil RawMessage.
NoBytes == <<>>
Marshal(v) == <<v>>

\* ------------------------------------------------------------ data model
ZeroMessage ==
    [ID |-> <<>>, Type |-> <<>>, Role |-> <<>>, Model |-> <<>>,
     Content |-> <<>>, StopReason |-> <<>>,
     Usage |-> [InputTokens |-> 0, OutputTokens |-> 0]]

ContentBlock(type, text, toolCall, toolOutput) ==
    [Type |-> type, Text |-> text, ToolCall |-> toolCall, ToolOutput |-> toolOutput]

ToolCall(type, id, name, input) ==
    [Type |-> type, ID |-> id, Name |-> name, Input |-> input]

ToolOutput(toolCallID, output) ==
    [ToolCallID |-> toolCallID, Output |-> output]

MessageEvent(resp, err) == [Response |-> resp, Err |-> err]

\* ------------------------------------------------- results of a fold step
\* resp, err: the two return values; crash: the step panicked; sunk: the
\* fragments passed to StreamFunc; sinkErr: StreamFunc returned an error;
\* send: the step sends &response on eventChan before it returns.
Ret(resp, err) ==
    [resp |-> resp, err |-> err, crash |-> FALSE, sunk |-> <<>>,
     sinkErr |-> FALSE, send |-> FALSE]
Ok(resp) == Ret(resp, NoErr)
Panic(resp) ==
    [resp |-> resp, err |-> NoErr, crash |-> TRUE, sunk |-> <<>>,
     sinkErr |-> FALSE, send |-> FALSE]

\* --------------------------------------------------------------- handlers
\* (the usage of the message is not looked at)
handleMessageStartNoUsage(event, response) ==
    IF ~IsMap(event, "message") THEN Ret(response, "invalid message field")
    ELSE LET message == event["message"].v IN
    Ok([response EXCEPT
          !.ID = getString(message, "id"),
          !.Model = getString(message, "model"),
          !.Role = getString(message, "role"),
          !.Type = getString(message, "type")])

handleMessageStartEvent(event, response) ==
    IF ~IsMap(event, "message") THEN Ret(response, "invalid message field")
    ELSE LET message == event["message"].v IN
    IF ~IsMap(message, "usage") THEN Ret(response, "invalid usage field")
    ELSE LET usage == message["usage"].v IN
    IF ~IsNum(usage, "input_tokens") THEN Ret(response, "invalid input_tokens field")
    ELSE Ok([response EXCEPT
                !.ID = getString(message, "id"),
                !.Model = getString(message, "model"),
                !.Role = getString(message, "role"),
                !.Type = getString(message, "type"),
                !.Usage.InputTokens = int(usage["input_tokens"])])

\* (the new segment is put in front)
AppendBlockFront(response, block) == [response EXCEPT !.Content = <<block>> \o @]

\* append(response.Content, block)
AppendBlock(response, block) ==
    [response EXCEPT !.Content = Append(@, block)]

\* case "tool_use" of handleContentBlockStartEvent
NewToolUse(contentType, contentBlock) ==
    ToolCall(contentType, getString(contentBlock, "id"),
             getString(contentBlock, "name"),
             IF "input" \in DOMAIN contentBlock
             THEN Marshal(contentBlock["input"]) ELSE NoBytes)

handleContentBlockStartEvent(event, response) ==
    IF ~IsNum(event, "index") THEN Ret(response, "invalid index field")
    ELSE LET index == int(event["index"]) IN
    IF ~IsMap(event, "content_block") THEN Ret(response, "invalid content_block field")
    ELSE LET contentBlock == event["content_block"].v
             contentType == getString(contentBlock, "type") IN
    CASE contentType = S("text") ->
           IF Len(response.Content) <= index
           THEN Ok(AppendBlock(response, ContentBlock(contentType, <<>>, <<>>, <<>>)))
           ELSE Ok(response)
      [] contentType = S("tool_use") ->
           Ok(AppendBlock(response,
                ContentBlock(contentType, <<>>,
                             <<NewToolUse(contentType, contentBlock)>>, <<>>)))
      [] contentType = S("tool_result") ->
           Ok(AppendBlock(response,
                ContentBlock(contentType, <<>>, <<>>,
                             <<ToolOutput(getString(contentBlock, "tool_call_id"),
                                          getString(contentBlock, "output"))>>)))
      [] OTHER -> Ret(response, "unknown content block type")

\* (the text is put in front of the old text)
AppendTextFront(old, text) == text \o old

\* response.Content[index].Text += text
AppendText(old, text) == old \o text

\* case "text_delta" of the first switch of handleContentBlockDeltaEvent
foldTextDelta(delta, index, response) ==
    LET text == getString(delta, "text") IN
    IF Len(response.Content) <= index
    THEN Ok(AppendBlock(response, ContentBlock(S("text"), text, <<>>, <<>>)))
    ELSE IF index < 0 THEN Panic(response)
    ELSE Ok([response EXCEPT
               !.Content[index + 1].Text = AppendText(@, text)])

\* (a key already present keeps its value)
MergeInputKeepExisting(existingInput, input) ==
    [k \in (DOMAIN existingInput) \cup (DOMAIN input) |->
        IF k \in DOMAIN existingInput THEN existingInput[k] ELSE input[k]]

\* for k, v := range input { existingInput[k] = v }
MergeInput(existingInput, input) ==
    [k \in (DOMAIN existingInput) \cup (DOMAIN input) |->
        IF k \in DOMAIN input THEN input[k] ELSE existingInput[k]]

\* case "tool_use_delta"
foldToolUseDelta(delta, index, response) ==
    IF Len(response.Content) <= index
    THEN Ret(response, "invalid tool_use_delta: no corresponding tool_use block")
    ELSE IF index < 0 THEN Panic(response)
    ELSE IF response.Content[index + 1].ToolCall = <<>>
    THEN Ret(response, "invalid tool_use_delta: no corresponding tool_use block")
    ELSE IF ~IsMap(delta, "input") THEN Ok(response)
    ELSE LET input == delta["input"].v
             raw == response.Content[index + 1].ToolCall[1].Input IN
         \* json.Unmarshal(raw, &existingInput)
         IF raw = NoBytes THEN Ret(response, "failed to unmarshal existing input")
         ELSE IF raw[1].t = "null"
         THEN \* existingInput stays a nil map
              IF DOMAIN input # {} THEN Panic(response)
              ELSE Ok([response EXCEPT
                         !.Content[index + 1].ToolCall[1].Input = Marshal(JNull)])
         ELSE IF raw[1].t # "map" THEN Ret(response, "failed to unmarshal existing input")
         ELSE Ok([response EXCEPT
                    !.Content[index + 1].ToolCall[1].Input =
                        Marshal(JMap(MergeInput(raw[1].v, input)))])

\* case "tool_result_delta"
foldToolResultDelta(delta, index, response) ==
    IF Len(response.Content) <= index
    THEN Ret(response, "invalid tool_result_delta: no corresponding tool_result block")
    ELSE IF index < 0 THEN Panic(response)
    ELSE IF response.Content[index + 1].ToolOutput = <<>>
    THEN Ret(response, "invalid tool_result_delta: no corresponding tool_result block")
    ELSE IF IsStr(delta, "content")
    THEN Ok([response EXCEPT
               !.Content[index + 1].ToolOutput[1].Output = @ \o delta["content"].v])
    ELSE Ok(response)

\* The fragment handed to StreamFunc by the second switch: the text of a
\* text_delta; nil for every delta type the switch does not name (the
\* names it does have, tool_call_delta and tool_output_delta, never pass
\* the first switch).
StreamContent(deltaType, delta) ==
    IF deltaType = S("text_delta") THEN delta["text"].v ELSE <<>>

\* (the error StreamFunc returns is dropped)
SinkReturnIgnored(response, streamContent, sinkFails) ==
    [resp |-> response, err |-> NoErr, crash |-> FALSE,
     sunk |-> <<streamContent>>, sinkErr |-> sinkFails, send |-> FALSE]

\* err := payload.StreamFunc(ctx, streamContent); if err != nil { ... }
SinkReturn(response, streamContent, sinkFails) ==
    [resp |-> response,
     err |-> IF sinkFails THEN "streaming func returned an error" ELSE NoErr,
     crash |-> FALSE, sunk |-> <<streamContent>>, sinkErr |-> sinkFails,
     send |-> FALSE]

\* if payload.IsStreaming() { ... }
forwardDelta(streaming, sinkFails, deltaType, delta, response) ==
    IF ~streaming THEN Ok(response)
    ELSE IF deltaType = S("text_delta") /\ ~IsStr(delta, "text")
    THEN Panic(response)            \* delta["text"].(string) on a non-string
    ELSE SinkReturn(response, StreamContent(deltaType, delta), sinkFails)

handleContentBlockDeltaEvent(event, streaming, sinkFails, response) ==
    IF ~IsNum(event, "index") THEN Ret(response, "invalid index field")
    ELSE LET index == int(event["index"]) IN
    IF ~IsMap(event, "delta") THEN Ret(response, "invalid delta field")
    ELSE LET delta == event["delta"].v
             deltaType == getString(delta, "type")
             folded ==
               CASE deltaType = S("text_delta") -> foldTextDelta(delta, index, response)
                 [] deltaType = S("tool_use_delta") -> foldToolUseDelta(delta, index, response)
                 [] deltaType = S("tool_result_delta") -> foldToolResultDelta(delta, index, response)
                 [] OTHER -> Ret(response, "unknown delta type")
         IN IF folded.crash \/ folded.err # NoErr THEN folded
            ELSE forwardDelta(streaming, sinkFails, deltaType, delta, folded.resp)

handleMessageDeltaEvent(event, response) ==
    IF ~IsMap(event, "delta") THEN Ret(response, "invalid delta field")
    ELSE LET delta == event["delta"].v
             r1 == [response EXCEPT !.StopReason = getString(delta, "stop_reason")] IN
    IF ~IsMap(event, "usage") THEN Ret(r1, "invalid usage field")
    ELSE LET usage == event["usage"].v IN
    IF IsNum(usage, "output_tokens")
    THEN Ok([r1 EXCEPT !.Usage.OutputTokens = int(usage["output_tokens"])])
    ELSE Ok(r1)

\* (no send at all; a send on content_block_stop too; a send on ping too;
\* a send in the default case too; a send on every event without handler)
SendsResponseNever(eventType) == FALSE
SendsResponseAlways(eventType) == TRUE
SendsResponseOnBlockStop(eventType) ==
    eventType \in {S("message_stop"), S("content_block_stop")}
SendsResponseOnPing(eventType) == eventType \in {S("message_stop"), S("ping")}
SendsResponseOnUnknown(eventType) ==
    eventType \notin {S("content_block_stop"), S("ping")}

\* The event types on which processStreamEvent sends &response on eventChan.

SendsResponse(eventType) == eventType = S("message_stop")

\* (an event without a type string is passed over like an unknown kind)
processStreamEventUntypedSkipped(event, streaming, sinkFails, response) ==
    IF ~IsStr(event, "type") THEN Ok(response)
    ELSE LET eventType == event["type"].v IN
    CASE eventType = S("message_start") -> handleMessageStartEvent(event, response)
      [] eventType = S("content_block_start") -> handleContentBlockStartEvent(event, response)
      [] eventType = S("content_block_delta") ->
           handleContentBlockDeltaEvent(event, streaming, sinkFails, response)
      [] eventType = S("message_delta") -> handleMessageDeltaEvent(event, response)
      [] OTHER -> [Ok(response) EXCEPT !.send = SendsResponse(eventType)]

processStreamEvent(event, streaming, sinkFails, response) ==
    IF ~IsStr(event, "type") THEN Ret(response, "invalid event type")
    ELSE LET eventType == event["type"].v IN
    CASE eventType = S("message_start") -> handleMessageStartEvent(event, response)
      [] eventType = S("content_block_start") -> handleContentBlockStartEvent(event, response)
      [] eventType = S("content_block_delta") ->
           handleContentBlockDeltaEvent(event, streaming, sinkFails, response)
      [] eventType = S("message_delta") -> handleMessageDeltaEvent(event, response)
      [] OTHER -> [Ok(response) EXCEPT !.send = SendsResponse(eventType)]

\* ------------------------------------------------------------------ lines
\* A line is a sequence of chunks: a literal piece of text, or the JSON
\* text of one value.
Lit(s) == [lit |-> s, json |-> <<>>]
Json(v) == [lit |-> "", json |-> <<v>>]

\* (any non-empty line is taken for a payload line)
HasAnyPrefix(line) == Len(line) >= 1

\* strings.HasPrefix(line, "data:")
HasDataPrefix(line) == Len(line) >= 1 /\ line[1].lit = "data:"

\* strings.TrimPrefix(line, "data: ")
TrimDataPrefix(line) ==
    IF Len(line) >= 2 /\ line[1].lit = "data:" /\ line[2].lit = " "
    THEN SubSeq(line, 3, Len(line)) ELSE line

IsSpace(chunk) == chunk.lit = " "

\* json.Unmarshal([]byte(data), &event) with event a map[string]interface{}:
\* white space around the value is skipped; the text must be exactly one
\* JSON value, an object or null (null leaves the nil map).
parseStreamEvent(data) ==
    LET body == SelectSeq(data, LAMBDA c : ~IsSpace(c)) IN
    IF Len(body) = 1 /\ body[1].json # <<>> /\ body[1].json[1].t = "map"
    THEN [event |-> body[1].json[1].v, err |-> NoErr]
    ELSE IF Len(body) = 1 /\ body[1].json # <<>> /\ body[1].json[1].t = "null"
    THEN [event |-> <<>>, err |-> NoErr]
    ELSE [event |-> <<>>, err |-> "invalid JSON"]

\* --------------------------------------------- one iteration of the loop
\* The producer's state after the body of `for scanner.Scan()` has run on
\* one line, up to its next channel operation.
Iter(pcNext, response, err) ==
    [pc |-> pcNext, response |-> response, err |-> err, sunk |-> <<>>,
     sinkErr |-> FALSE]

\* (the malformed line is skipped: continue)
DecodeSkipped(response) == Iter("scan", response, NoErr)

\* if err != nil after parseStreamEvent: send the error and return
DecodeFailed(response) ==
    Iter("sendErr", response, "failed to parse stream event")

\* response, err = processStreamEvent(...); if err != nil { send; return }
Processed(r) ==
    [pc |-> IF r.crash THEN "crashed"
            ELSE IF r.send THEN "sendResp"
            ELSE IF r.err # NoErr THEN "sendErr" ELSE "scan",
     response |-> r.resp,
     err |-> IF r.err # NoErr THEN "failed to process stream event" ELSE NoErr,
     sunk |-> r.sunk, sinkErr |-> r.sinkErr]

LoopBody(line, streaming, sinkFails, response) ==
    IF line = <<>> \/ ~HasDataPrefix(line) THEN Iter("scan", response, NoErr)
    ELSE LET parsed == parseStreamEvent(TrimDataPrefix(line)) IN
         IF parsed.err # NoErr THEN DecodeFailed(response)
         ELSE Processed(processStreamEvent(parsed.event, streaming, sinkFails, response))

\* (no return after the error was sent: the loop goes on)
AfterErrorSentContinue == "scan"

\* (the goroutine ends after the error was sent without closing)
AfterErrorSentNoClose == "done"

\* Where the producer goes once its error item has been received: it
\* returns, and the deferred close runs.
AfterErrorSent == "close"

\* --------------------------------------------------------------- consumer
\* (return lastResponse, event.Err)
ReturnErrorWithLast(event, last) == [Response |-> last, Err |-> event.Err]

\* if event.Err != nil { return nil, event.Err }
ReturnError(event, last) == [Response |-> <<>>, Err |-> event.Err]

\* (return nil, nil)
ReturnNothing(last) == [Response |-> <<>>, Err |-> NoErr]

\* return lastResponse, nil
ReturnLast(last) == [Response |-> last, Err |-> NoErr]

\* ------------------------------------------------------- the input lines
TypeOf(s) == JStr(S(s))

EvMessageStart ==
    [type |-> TypeOf("message_start"),
     message |-> JMap([id |-> JStr(S("msg_1")), role |-> JStr(S("assistant")),
                       model |-> JStr(S("claude-3-sonnet")),
                       usage |-> JMap([input_tokens |-> JNum(10)])])]
EvMessageStartNoUsage ==
    [type |-> TypeOf("message_start"),
     message |-> JMap([id |-> JStr(S("msg_2"))])]
EvBlockStartText(i) ==
    [type |-> TypeOf("content_block_start"), index |-> JNum(i),
     content_block |-> JMap([type |-> JStr(S("text"))])]
EvBlockStartToolUse(i) ==
    [type |-> TypeOf("content_block_start"), index |-> JNum(i),
     content_block |-> JMap([type |-> JStr(S("tool_use")), id |-> JStr(S("call_1")),
                             name |-> JStr(S("get_stock_price")),
                             input |-> JMap([ticker |-> JStr(S("^GSPC"))])])]
EvTextDelta(i, text) ==
    [type |-> TypeOf("content_block_delta"), index |-> JNum(i),
     delta |-> JMap([type |-> JStr(S("text_delta")), text |-> JStr(text)])]
EvTextDeltaNoText(i) ==
    [type |-> TypeOf("content_block_delta"), index |-> JNum(i),
     delta |-> JMap([type |-> JStr(S("text_delta"))])]
EvToolUseDelta(i) ==
    [type |-> TypeOf("content_block_delta"), index |-> JNum(i),
     delta |-> JMap([type |-> JStr(S("tool_use_delta")),
                     input |-> JMap([date |-> JStr(S("2023-07-01"))])])]
EvBlockStop(i) == [type |-> TypeOf("content_block_stop"), index |-> JNum(i)]
EvMessageDelta ==
    [type |-> TypeOf("message_delta"),
     delta |-> JMap([stop_reason |-> JStr(S("end_turn"))]),
     usage |-> JMap([output_tokens |-> JNum(5)])]
EvMessageDeltaNoUsage ==
    [type |-> TypeOf("message_delta"),
     delta |-> JMap([stop_reason |-> JStr(S("max_tokens"))])]
EvMessageStop == [type |-> TypeOf("message_stop")]
EvPing == [type |-> TypeOf("ping")]
EvUnknown == [type |-> TypeOf("future_event")]

\* An entry of the table: the chunks of the line as the reader delivers
\* them, what the line is on the wire (kind) and the event it carries.
DataLine(ev) ==
    [chunks |-> <<Lit("data:"), Lit(" "), Json(JMap(ev))>>, kind |-> "event", ev |-> ev]
BlankLine == [chunks |-> <<>>, kind |-> "blank", ev |-> <<>>]
CommentLine == [chunks |-> <<Lit("event: ping")>>, kind |-> "comment", ev |-> <<>>]
MalformedLine ==
    [chunks |-> <<Lit("data:"), Lit(" "), Lit("{invalid json}")>>,
     kind |-> "malformed", ev |-> <<>>]
NoSpaceLine(ev) ==
    [chunks |-> <<Lit("data:"), Json(JMap(ev))>>, kind |-> "nospace", ev |-> ev]

LineTable ==
    << BlankLine, CommentLine, MalformedLine, NoSpaceLine(EvPing),
       DataLine(EvMessageStart), DataLine(EvMessageStartNoUsage),
       DataLine(EvBlockStartText(0)), DataLine(EvBlockStartText(1)),
       DataLine(EvBlockStartToolUse(0)),
       DataLine(EvTextDelta(0, <<"a">>)), DataLine(EvTextDelta(0, <<"b">>)),
       DataLine(EvTextDelta(1, <<"c">>)), DataLine(EvTextDeltaNoText(0)),
       DataLine(EvToolUseDelta(0)), DataLine(EvBlockStop(0)),
       DataLine(EvMessageDelta), DataLine(EvMessageDeltaNoUsage),
       DataLine(EvMessageStop), DataLine(EvPing), DataLine(EvUnknown) >>

\* ----------------------------------------------------- observers (ghost)
EvType(entry) ==
    IF entry.kind = "event" /\ IsStr(entry.ev, "type") THEN entry.ev["type"].v ELSE <<>>

IsWhole(m, key) == IsNum(m, key) /\ ~m[key].f

\* The stream read so far, while it is a prefix of a well-formed stream:
\*   message_start (content_block_start_k text_delta_k* )* message_delta message_stop
\* with segment indices 0, 1, ... in order, or message_stop alone; blank
\* and comment lines, ping and content_block_stop of the open segment may
\* occur in between.  ms, md: the message_start and message_delta events
\* (as pointers); segs[k]: the texts of the deltas of segment k-1.
InitHist == [phase |-> "init", ms |-> <<>>, segs |-> <<>>, md |-> <<>>]
BadHist == [phase |-> "bad", ms |-> <<>>, segs |-> <<>>, md |-> <<>>]

WfMessageStart(ev) ==
    /\ IsMap(ev, "message")
    /\ LET m == ev["message"].v IN
       /\ IsStr(m, "id") /\ IsStr(m, "role") /\ IsStr(m, "model")
       /\ IsMap(m, "usage") /\ IsWhole(m["usage"].v, "input_tokens")

WfBlockStart(ev, k) ==
    /\ IsWhole(ev, "index") /\ ev["index"].v = k
    /\ IsMap(ev, "content_block")
    /\ IsStr(ev["content_block"].v, "type")
    /\ ev["content_block"].v["type"].v = S("text")

WfTextDelta(ev, k) ==
    /\ IsWhole(ev, "index") /\ ev["index"].v = k
    /\ IsMap(ev, "delta")
    /\ IsStr(ev["delta"].v, "type") /\ ev["delta"].v["type"].v = S("text_delta")
    /\ IsStr(ev["delta"].v, "text")

WfMessageDelta(ev) ==
    /\ IsMap(ev, "delta") /\ IsStr(ev["delta"].v, "stop_reason")
    /\ IsMap(ev, "usage") /\ IsWhole(ev["usage"].v, "output_tokens")

WfNext(h, entry) ==
    LET ty == EvType(entry)
        ev == entry.ev
        n == Len(h.segs)
    IN
    IF entry.kind \in {"blank", "comment"} \/ h.phase = "bad" THEN h
    ELSE IF entry.kind # "event" THEN BadHist
    ELSE IF ty = S("ping") /\ h.phase # "stopped" THEN h
    ELSE IF ty = S("content_block_stop") /\ h.phase = "block"
            /\ IsWhole(ev, "index") /\ ev["index"].v = n - 1 THEN h
    ELSE IF ty = S("message_start") /\ h.phase = "init" /\ WfMessageStart(ev)
         THEN [h EXCEPT !.phase = "started", !.ms = <<ev>>]
    ELSE IF ty = S("content_block_start") /\ h.phase \in {"started", "block"}
            /\ WfBlockStart(ev, n)
         THEN [h EXCEPT !.phase = "block", !.segs = Append(@, <<>>)]
    ELSE IF ty = S("content_block_delta") /\ h.phase = "block" /\ WfTextDelta(ev, n - 1)
         THEN [h EXCEPT !.segs[n] = Append(@, ev["delta"].v["text"].v)]
    ELSE IF ty = S("message_delta") /\ h.phase \in {"started", "block"}
            /\ WfMessageDelta(ev)
         THEN [h EXCEPT !.phase = "mdelta", !.md = <<ev>>]
    ELSE IF ty = S("message_stop") /\ h.phase \in {"init", "mdelta"}
         THEN [h EXCEPT !.phase = "stopped"]
    ELSE BadHist

\* The line carries a text delta the fold accepts: a content_block_delta
\* with a numeric index >= 0 and a delta of type text_delta with a text.
IsTextDelta(entry) ==
    LET ev == entry.ev IN
    /\ EvType(entry) = S("content_block_delta")
    /\ IsNum(ev, "index") /\ ev["index"].v >= 0
    /\ IsMap(ev, "delta")
    /\ IsStr(ev["delta"].v, "type") /\ ev["delta"].v["type"].v = S("text_delta")
    /\ IsStr(ev["delta"].v, "text")

TextOf(entry) == entry.ev["delta"].v["text"].v

RECURSIVE Flatten(_)
Flatten(ss) == IF ss = <<>> THEN <<>> ELSE Head(ss) \o Flatten(Tail(ss))

\* The current run of text deltas folded one after the other at the same
\* index of a text segment that already existed: idx the index (-1: no
\* run), base the segment's text before the run, ds the deltas' texts.
NoRun == [idx |-> -1, base |-> <<>>, ds |-> <<>>]

RunNext(r, entry, response, it) ==
    LET ev == entry.ev IN
    IF entry.kind \in {"blank", "comment"} \/ it.pc = "crashed" THEN r
    ELSE IF /\ IsTextDelta(entry)
            /\ ev["index"].v < Len(response.Content)
            /\ response.Content[ev["index"].v + 1].Type = S("text")
    THEN LET k == ev["index"].v
             d == TextOf(entry) IN
         IF r.idx = k THEN [r EXCEPT !.ds = Append(@, d)]
         ELSE [idx |-> k, base |-> response.Content[k + 1].Text, ds |-> <<d>>]
    ELSE NoRun

\* ---------------------------------------------------------- state machine
VARIABLES
    pc,            \* producer: scan, sendResp, sendErr, sending, close, done, crashed
    response,      \* the goroutine's `response`
    err,           \* the goroutine's `err`, once it is non-nil
    eventChan,     \* the item in flight on the unbuffered channel, if any
    closed,        \* close(eventChan) has run
    cpc,           \* consumer: range, returned
    lastResponse,  \* the consumer's `lastResponse` (a pointer)
    outcome,       \* what parseStreamingMessageResponse returned
    streaming,     \* payload.IsStreaming()
    nRead,         \* lines delivered by the scanner so far
    sunk,          \* the fragments StreamFunc was called with, in order
    sinkFailed,    \* StreamFunc has returned an error
    badLine,       \* a payload line that is not JSON has been read
    allPing,       \* every line read so far is a ping event
    deltaTexts,    \* the texts of the text deltas folded while a sink is set
    stopResp,      \* `response` when the first message_stop was read
    hist,          \* see WfNext
    run,           \* see RunNext
    last,          \* the table entry of the last line read, where recorded
    readFailed,    \* a read of the underlying stream has failed
    cancelled,     \* ctx has been cancelled
    shared,        \* lastResponse.Content and response.Content have the
                   \* same backing array
    nc,            \* a call of NewClient: see NcIdle
    log,           \* the lines read and what StreamFunc returned, where logged
    event          \* the consumer's loop variable `event`, where its loop
                   \* body is a step of its own

vars == <<pc, response, err, eventChan, closed, cpc, lastResponse, outcome,
          streaming, nRead, sunk, sinkFailed, badLine, allPing, deltaTexts,
          stopResp, hist, run, last, readFailed, cancelled, shared, nc, log, event>>

ghosts == <<nRead, sunk, sinkFailed, badLine, allPing, deltaTexts, stopResp,
            hist, run, last, readFailed, cancelled, nc, log>>

NoOutcome == [Response |-> <<>>, Err |-> "unset"]

\* ------------------------------------------------------------ NewClient
defaultBaseURL == S("https://api.anthropic.com/v1")
defaultAPIVersion == S("2023-06-01")
defaultTimeout == 120

\* &Client{baseURL: defaultBaseURL, APIVersion: defaultAPIVersion,
\*         httpClient: &http.Client{Timeout: defaultTimeout}}
NewClientStruct ==
    [baseURL |-> defaultBaseURL, APIKey |-> <<>>, APIVersion |-> defaultAPIVersion,
     httpClient |-> <<[Timeout |-> defaultTimeout]>>]

\* what a ClientOption returns; crash: it dereferences a nil pointer
OptOk(c) == [client |-> c, err |-> NoErr, crash |-> FALSE]
OptErr(c, e) == [client |-> c, err |-> e, crash |-> FALSE]
OptPanic(c) == [client |-> c, err |-> NoErr, crash |-> TRUE]

WithBaseURL(url, c) == OptOk([c EXCEPT !.baseURL = url])

\* env: the value of the ANTHROPIC_API_KEY environment variable
WithAPIKey(apiKey, env, c) ==
    LET key == IF apiKey = <<>> THEN env ELSE apiKey IN
    IF key = <<>>
    THEN OptErr(c, "no API key provided and ANTHROPIC_API_KEY environment variable is not set")
    ELSE OptOk([c EXCEPT !.APIKey = key])

WithAPIVersion(version, c) == OptOk([c EXCEPT !.APIVersion = version])

WithHTTPClient(httpClient, c) == OptOk([c EXCEPT !.httpClient = httpClient])

WithTimeout(timeout, c) ==
    IF c.httpClient = <<>> THEN OptPanic(c)
    ELSE OptOk([c EXCEPT !.httpClient[1].Timeout = timeout])

\* a ClientOption written by the caller that returns an error
FailingOption(c) == OptErr(c, "option failed")

\* opt(client)
ApplyOption(opt, env, c) ==
    CASE opt.op = "WithBaseURL" -> WithBaseURL(opt.arg, c)
      [] opt.op = "WithAPIKey" -> WithAPIKey(opt.arg, env, c)
      [] opt.op = "WithAPIVersion" -> WithAPIVersion(opt.arg, c)
      [] opt.op = "WithHTTPClient" -> WithHTTPClient(opt.arg, c)
      [] opt.op = "WithTimeout" -> WithTimeout(opt.arg, c)
      [] OTHER -> FailingOption(c)

\* (the client is returned whether it has a key or not)
APIKeyNeverMissing(c) == FALSE

\* if client.APIKey == ""
APIKeyMissing(c) == c.APIKey = <<>>

\* The state of a call of NewClient: pc (idle: no call; loop: in the loop
\* over opts; returned; crashed), the client under construction, the
\* environment variable, the options applied so far and what was returned.
NcIdle ==
    [pc |-> "idle", client |-> NewClientStruct, env |-> <<>>, opts |-> <<>>,
     ret |-> [client |-> <<>>, err |-> "unset"]]

Init ==
    /\ pc = "scan" /\ response = ZeroMessage /\ err = NoErr
    /\ eventChan = <<>> /\ closed = FALSE
    /\ cpc = "range" /\ lastResponse = <<>> /\ outcome = NoOutcome
    /\ streaming \in BOOLEAN
    /\ nRead = 0 /\ sunk = <<>> /\ sinkFailed = FALSE /\ badLine = FALSE
    /\ allPing = TRUE /\ deltaTexts = <<>> /\ stopResp = <<>> /\ hist = InitHist /\ run = NoRun
    /\ last = 0 /\ readFailed = FALSE /\ cancelled = FALSE
    /\ shared = FALSE
    /\ nc = NcIdle
    /\ log = <<>> /\ event = <<>>

\* cap(response.Content) when it holds n segments: append grows a full
\* backing array from 0 to 1 and then to twice its length.
Cap(n) == IF n <= 2 THEN n ELSE IF n <= 4 THEN 4 ELSE 8

\* the step from `before` to `after` appended a segment to a full backing
\* array, so that `after` has a new one
Reallocates(before, after) ==
    /\ Len(after.Content) > Len(before.Content)
    /\ Len(before.Content) = Cap(Len(before.Content))

\* What the pointer handed over at message_stop (&response, a copy of the
\* Message made when processStreamEvent was called) shows once the
\* producer's response is `resp`: the copy has its own fields and its
\* own slice header, the ToolCall and ToolOutput pointers of its segments
\* are those of the producer's segments, and its segments are the
\* producer's as long as the backing array is the same.
Aliased(held, sameArray, resp) ==
    IF held = <<>> \/ held[1].Content = <<>> THEN held
    ELSE <<[held[1] EXCEPT !.Content =
              [k \in 1..Len(held[1].Content) |->
                  IF sameArray THEN resp.Content[k]
                  ELSE [@[k] EXCEPT !.ToolCall = resp.Content[k].ToolCall,
                                    !.ToolOutput = resp.Content[k].ToolOutput]]]>>

\* scanner.Scan() returns true with line i of a table, at most `bound`
\* times; the loop body runs on it.  sinkFails: what StreamFunc returns if
\* this line makes the producer call it.  record: whether `last` keeps i.
ScanOn(table, bound, record, i, sinkFails) ==
    /\ pc = "scan" /\ nRead < bound
    /\ LET entry == table[i]
           it == LoopBody(entry.chunks, streaming, sinkFails, response)
       IN /\ pc' = it.pc /\ response' = it.response /\ err' = it.err
          /\ sunk' = sunk \o it.sunk
          /\ sinkFailed' = (sinkFailed \/ it.sinkErr)
          /\ nRead' = nRead + 1
          /\ badLine' = (badLine \/ entry.kind = "malformed")
          /\ allPing' = (allPing /\ EvType(entry) = S("ping"))
          /\ deltaTexts' = IF streaming /\ IsTextDelta(entry) /\ it.pc # "crashed"
                           THEN Append(deltaTexts, TextOf(entry)) ELSE deltaTexts
          /\ stopResp' = IF EvType(entry) = S("message_stop") /\ stopResp = <<>>
                         THEN <<response>> ELSE stopResp
          /\ hist' = WfNext(hist, entry)
          /\ run' = RunNext(run, entry, response, it)
          /\ last' = IF record THEN i ELSE 0
          /\ lastResponse' = Aliased(lastResponse, shared, it.response)
          /\ shared' = (shared /\ ~Reallocates(response, it.response))
    /\ UNCHANGED <<eventChan, closed, cpc, outcome, streaming,
                   readFailed, cancelled, nc>>

ScanLine(i, sinkFails) ==
    ScanOn(LineTable, MaxLines, FALSE, i, sinkFails) /\ UNCHANGED <<log, event>>

\* (the channel has a buffer: the producer goes on at once)
AfterSendBuffered == "scan"

\* eventChan := make(chan MessageEvent): the channel has no buffer, the
\* producer stays in its send until the consumer has received the item
AfterSend == "sending"

\* scanner.Scan() returns false at the end of the input, scanner.Err() is nil
ScanEOF ==
    /\ pc = "scan"
    /\ pc' = "close"
    /\ UNCHANGED <<response, err, eventChan, closed, cpc, lastResponse, outcome,
                   streaming, shared, event>>
    /\ UNCHANGED ghosts

\* (the read error is dropped and the producer just closes)
ScannerErrIgnored == [pc |-> "close", err |-> NoErr]

\* if err := scanner.Err(); err != nil { eventChan <- ... }
ScannerErr == [pc |-> "sendErr", err |-> "issue scanning response"]

\* scanner.Scan() returns false because the read failed
ScanFail ==
    /\ pc = "scan"
    /\ pc' = ScannerErr.pc /\ err' = ScannerErr.err
    /\ readFailed' = TRUE
    /\ UNCHANGED <<response, eventChan, closed, cpc, lastResponse, outcome,
                   streaming, shared, event>>
    /\ UNCHANGED <<nRead, sunk, sinkFailed, badLine, allPing, deltaTexts,
                   stopResp, hist, run, last, cancelled, nc, log>>

\* eventChan <- MessageEvent{Response: &response, Err: nil}
SendResponse ==
    /\ pc = "sendResp" /\ eventChan = <<>>
    /\ eventChan' = <<MessageEvent(<<response>>, NoErr)>>
    /\ pc' = AfterSend
    /\ UNCHANGED <<response, err, closed, cpc, lastResponse, outcome, streaming,
                   shared, event>>
    /\ UNCHANGED ghosts

\* eventChan <- MessageEvent{Response: nil, Err: ...}
SendError ==
    /\ pc = "sendErr" /\ eventChan = <<>>
    /\ eventChan' = <<MessageEvent(<<>>, err)>>
    /\ pc' = AfterSend
    /\ UNCHANGED <<response, err, closed, cpc, lastResponse, outcome, streaming,
                   shared, event>>
    /\ UNCHANGED ghosts

\* defer close(eventChan)
Close ==
    /\ pc = "close"
    /\ closed' = TRUE /\ pc' = "done"
    /\ UNCHANGED <<response, err, eventChan, cpc, lastResponse, outcome, streaming,
                   shared, event>>
    /\ UNCHANGED ghosts

\* for event := range eventChan, an item without error: the send completes
\* and the producer goes on with its loop.
RecvResponse ==
    /\ cpc = "range" /\ pc = "sending" /\ eventChan # <<>>
    /\ eventChan[1].Err = NoErr
    /\ lastResponse' = eventChan[1].Response
    /\ shared' = TRUE
    /\ eventChan' = <<>> /\ pc' = "scan"
    /\ UNCHANGED <<response, err, closed, cpc, outcome, streaming, event>>
    /\ UNCHANGED ghosts

\* for event := range eventChan, an item with an error: the consumer returns
RecvError ==
    /\ cpc = "range" /\ pc = "sending" /\ eventChan # <<>>
    /\ eventChan[1].Err # NoErr
    /\ outcome' = ReturnError(eventChan[1], lastResponse)
    /\ cpc' = "returned"
    /\ eventChan' = <<>> /\ pc' = AfterErrorSent
    /\ UNCHANGED <<response, err, closed, lastResponse, streaming, shared, event>>
    /\ UNCHANGED ghosts

\* the range loop ends on the closed channel
RecvClosed ==
    /\ cpc = "range" /\ closed /\ eventChan = <<>>
    /\ outcome' = ReturnLast(lastResponse)
    /\ cpc' = "returned"
    /\ UNCHANGED <<pc, response, err, eventChan, closed, lastResponse, streaming,
                   shared, event>>
    /\ UNCHANGED ghosts

Next ==
    \/ \E i \in 1..Len(LineTable), sinkFails \in BOOLEAN : ScanLine(i, sinkFails)
    \/ ScanEOF
    \/ ScanFail
    \/ SendResponse
    \/ SendError
    \/ Close
    \/ RecvResponse
    \/ RecvError
    \/ RecvClosed

Spec == Init /\ [][Next]_vars

\* ------------------------------------------------------------- properties
Returned == cpc = "returned"
ParseError == "failed to parse stream event"
ProcessError == "failed to process stream event"
ScanError == "issue scanning response"

\* The Content a well-formed stream describes: one text segment per
\* content_block_start, its text the concatenation of its deltas.
ExpectedContent(h) ==
    [k \in 1..Len(h.segs) |-> ContentBlock(S("text"), Flatten(h.segs[k]), <<>>, <<>>)]

C2_NeverResponseAndError ==
    Returned => (outcome.Err = NoErr \/ outcome.Response = <<>>)

C2_Witness ==
    Returned /\ outcome.Err # NoErr /\ lastResponse # <<>> /\ outcome.Response = <<>>

\* C3: once a payload line that is not JSON has been read, the operation
\* returns the parse error and a nil Response, whatever was folded before.
C3_MalformedLineIsFatal ==
    (Returned /\ badLine) => (outcome.Err = ParseError /\ outcome.Response = <<>>)

C3_Witness ==
    /\ Returned /\ badLine /\ outcome.Err = ParseError
    /\ response # ZeroMessage /\ lastResponse # <<>>

\* C4: once StreamFunc has returned an error, the operation returns an error
\* and a nil Response.
C4_SinkErrorIsFatal ==
    (Returned /\ sinkFailed) => (outcome.Err = ProcessError /\ outcome.Response = <<>>)

C4_Witness ==
    /\ Returned /\ sinkFailed /\ outcome.Err = ProcessError
    /\ sunk # <<>> /\ sunk[Len(sunk)] = <<"a">>
    /\ response.Content # <<>> /\ response.Content[1].Text # <<>>

\* C5: after the first error the producer reads no line, folds no event,
\* calls the sink no more, never comes back to its loop, and sends nothing
\* but that one error, once.
C5_ProducerStopsAfterError ==
    [][err # NoErr =>
         /\ nRead' = nRead /\ response' = response /\ sunk' = sunk
         /\ pc' \notin {"scan", "sendResp"}
         /\ (pc # "sendErr" => pc' # "sendErr")
         /\ (eventChan' # eventChan /\ eventChan' # <<>> =>
                pc = "sendErr" /\ eventChan' = <<MessageEvent(<<>>, err)>>)]_vars

C5_Witness ==
    pc = "done" /\ closed /\ err = ProcessError /\ Returned /\ nRead < MaxLines

\* C6: once a message_stop has been read, the outcome is the Response as it
\* stood at that message_stop, whatever follows in the stream.
C6_StopIsFinal ==
    (Returned /\ stopResp # <<>>) => outcome = [Response |-> stopResp, Err |-> NoErr]

\* C7 (as claimed): the input ends without message_stop and without error;
\* the operation returns the last Response built.
C7_EndOfInputReturnsLastBuilt ==
    (Returned /\ stopResp = <<>> /\ err = NoErr /\ response # ZeroMessage) =>
        outcome = [Response |-> <<response>>, Err |-> NoErr]

\* C7 (amended): the input ends without message_stop and without error;
\* the operation returns a nil Response and a nil error, whatever was
\* folded.
C7_EndOfInputReturnsNil ==
    (Returned /\ stopResp = <<>> /\ err = NoErr) =>
        outcome = [Response |-> <<>>, Err |-> NoErr]

C7_Witness ==
    /\ Returned /\ stopResp = <<>> /\ err = NoErr
    /\ response.ID # <<>> /\ response.Content # <<>>
    /\ outcome = [Response |-> <<>>, Err |-> NoErr]

\* C8: a stream of ping events only, read to its end, returns a nil
\* Response and a nil error.
C8_PingOnlyReturnsNil ==
    (Returned /\ allPing /\ err = NoErr) => outcome = [Response |-> <<>>, Err |-> NoErr]

C8_Witness ==
    Returned /\ allPing /\ nRead >= 1 /\ outcome = [Response |-> <<>>, Err |-> NoErr]

\* C9: text deltas folded one after the other at the index of an existing
\* text segment leave its text equal to the text before them followed by
\* the deltas in arrival order.
C9_DeltasConcatenateInOrder ==
    run.idx >= 0 =>
        response.Content[run.idx + 1].Text = run.base \o Flatten(run.ds)

\* two different deltas whose other order gives a different text
C9_Witness ==
    /\ run.idx >= 0 /\ Len(run.ds) = 2 /\ run.ds[1] # run.ds[2]
    /\ run.base # <<>>
    /\ response.Content[run.idx + 1].Text = run.base \o run.ds[1] \o run.ds[2]
    /\ response.Content[run.idx + 1].Text # run.base \o run.ds[2] \o run.ds[1]

\* C10: the fragments passed to the sink are, in order, exactly the texts
\* of the text deltas folded.
C10_SinkGetsTheDeltaTexts == sunk = deltaTexts

\* C11: with a sink, the sink has been called once per text delta folded
\* and for nothing else: as many calls as text deltas.
C11_SinkCalledForTextDeltasOnly == Len(sunk) = Len(deltaTexts)

\* C12: at every point of every stream the next line leaves the same
\* Response and the same outcome (go on, hand over, error) whether there
\* is no StreamFunc or a StreamFunc that returns nil.
C12_NoSinkSameAsNilSink ==
    pc = "scan" =>
        \A i \in 1..Len(LineTable) :
            LET absent == LoopBody(LineTable[i].chunks, FALSE, FALSE, response)
                inert == LoopBody(LineTable[i].chunks, TRUE, FALSE, response)
            IN /\ absent.pc = inert.pc
               /\ absent.response = inert.response
               /\ absent.err = inert.err

\* ------------------------------------------------- line by line checks
\* A second specification reads the lines of TraceTable and records in
\* `last` which line was read, so that a step can be told by its line.
MaxTraceLines == 4

EvToolUseDeltaInput(i, input) ==
    [type |-> TypeOf("content_block_delta"), index |-> JNum(i),
     delta |-> JMap([type |-> JStr(S("tool_use_delta")), input |-> JMap(input)])]
EvBlockStartToolResult(i) ==
    [type |-> TypeOf("content_block_start"), index |-> JNum(i),
     content_block |-> JMap([type |-> JStr(S("tool_result")),
                             tool_call_id |-> JStr(S("call_123")),
                             output |-> JStr(S("The current S&P 500 price"))])]
EvToolResultDelta(i, content) ==
    [type |-> TypeOf("content_block_delta"), index |-> JNum(i),
     delta |-> JMap([type |-> JStr(S("tool_result_delta")), content |-> JStr(content)])]

EvToolResultDeltaOutput(i, output) ==
    [type |-> TypeOf("content_block_delta"), index |-> JNum(i),
     delta |-> JMap([type |-> JStr(S("tool_result_delta")), output |-> JStr(output)])]
EvBlockStartToolUseNoInput(i) ==
    [type |-> TypeOf("content_block_start"), index |-> JNum(i),
     content_block |-> JMap([type |-> JStr(S("tool_use")), id |-> JStr(S("call_1")),
                             name |-> JStr(S("get_stock_price"))])]
EvBlockStartToolUseNull(i) ==
    [type |-> TypeOf("content_block_start"), index |-> JNum(i),
     content_block |-> JMap([type |-> JStr(S("tool_use")), id |-> JStr(S("call_1")),
                             name |-> JStr(S("get_stock_price")),
                             input |-> JNull])]

TraceTable == <<
    BlankLine,
    CommentLine,
    DataLine(EvUnknown),
    DataLine(EvPing),
    DataLine(EvMessageStop),
    DataLine(EvBlockStartText(0)),
    DataLine(EvBlockStartToolUse(0)),
    DataLine(EvBlockStartToolResult(0)),
    DataLine(EvTextDelta(0, <<"a">>)),
    DataLine(EvToolUseDelta(0)),
    DataLine(EvToolUseDeltaInput(0, [ticker |-> JStr(S("AAPL"))])),
    DataLine(EvToolResultDelta(0, S(" is 4,000.00"))),
    DataLine(EvToolResultDeltaOutput(0, S(" is 4,000.00"))),
    DataLine(EvBlockStartToolUseNoInput(0)),
    DataLine(EvBlockStartToolUseNull(0)),
    DataLine(EvToolUseDelta(-1)) >>

ScanTrace(i, sinkFails) ==
    ScanOn(TraceTable, MaxTraceLines, TRUE, i, sinkFails) /\ UNCHANGED <<log, event>>

NextTrace ==
    \/ \E i \in 1..Len(TraceTable), sinkFails \in BOOLEAN : ScanTrace(i, sinkFails)
    \/ ScanEOF
    \/ ScanFail
    \/ SendResponse
    \/ SendError
    \/ Close
    \/ RecvResponse
    \/ RecvError
    \/ RecvClosed

SpecTrace == Init /\ [][NextTrace]_vars

\* the step reads a line
LineRead == nRead' = nRead + 1

KnownKinds ==
    {S("message_start"), S("content_block_start"), S("content_block_delta"),
     S("content_block_stop"), S("message_delta"), S("message_stop"), S("ping")}

IsUnknownKind(entry) ==
    entry.kind = "event" /\ IsStr(entry.ev, "type") /\ EvType(entry) \notin KnownKinds

\* C13: a line whose event has a type string outside the known kinds
\* changes nothing: the Response, the error, the channel, the consumer
\* and the sink calls are what they were and the producer is back at its
\* loop, so the rest of the stream is read from the same state.
C13_UnknownKindSkipped ==
    [][(LineRead /\ IsUnknownKind(TraceTable[last'])) =>
         /\ pc' = "scan" /\ response' = response /\ err' = NoErr
         /\ sunk' = sunk /\ sinkFailed' = sinkFailed
         /\ UNCHANGED <<eventChan, closed, cpc, lastResponse, outcome>>]_vars

C13_Witness ==
    /\ last >= 1 /\ IsUnknownKind(TraceTable[last])
    /\ pc = "scan" /\ nRead >= 2 /\ response.Content # <<>>

\* The line carries a tool-argument delta: a content_block_delta with an
\* index >= 0 and a delta of type tool_use_delta whose input is a mapping.
IsToolArgDelta(entry) ==
    LET ev == entry.ev IN
    /\ EvType(entry) = S("content_block_delta")
    /\ IsNum(ev, "index") /\ ev["index"].v >= 0
    /\ IsMap(ev, "delta")
    /\ IsStr(ev["delta"].v, "type") /\ ev["delta"].v["type"].v = S("tool_use_delta")
    /\ IsMap(ev["delta"].v, "input")

IndexOf(entry) == entry.ev["index"].v

\* the segment at index k is a tool_use segment whose arguments are a mapping
HasArguments(resp, k) ==
    /\ k < Len(resp.Content)
    /\ resp.Content[k + 1].ToolCall # <<>>
    /\ resp.Content[k + 1].ToolCall[1].Input # NoBytes
    /\ resp.Content[k + 1].ToolCall[1].Input[1].t = "map"

Arguments(resp, k) == resp.Content[k + 1].ToolCall[1].Input[1].v

\* C14: a tool-argument delta at a tool_use segment that has arguments
\* leaves arguments whose keys are the old keys and the delta's keys,
\* where every key of the delta has the delta's value and every other key
\* has kept its value.
C14_ToolArgumentsMergeShallow ==
    [][(/\ LineRead
        /\ IsToolArgDelta(TraceTable[last'])
        /\ HasArguments(response, IndexOf(TraceTable[last']))) =>
         LET k == IndexOf(TraceTable[last'])
             d == TraceTable[last'].ev["delta"].v["input"].v
             old == Arguments(response, k)
         IN /\ HasArguments(response', k)
            /\ DOMAIN Arguments(response', k) = (DOMAIN old) \cup (DOMAIN d)
            /\ \A key \in DOMAIN d : Arguments(response', k)[key] = d[key]
            /\ \A key \in (DOMAIN old) \ (DOMAIN d) :
                   Arguments(response', k)[key] = old[key]]_vars

\* {ticker: ^GSPC} merged with {date: ...} and then with {ticker: AAPL}
C14_Witness ==
    /\ last >= 1 /\ IsToolArgDelta(TraceTable[last])
    /\ HasArguments(response, 0)
    /\ DOMAIN Arguments(response, 0) = {"ticker", "date"}
    /\ Arguments(response, 0)["ticker"] = JStr(S("AAPL"))
    /\ Arguments(response, 0)["date"] = JStr(S("2023-07-01"))

\* the line carries a delta of one of the three sub-kinds, index >= 0
IsKindedDelta(entry) ==
    LET ev == entry.ev IN
    /\ EvType(entry) = S("content_block_delta")
    /\ IsNum(ev, "index") /\ ev["index"].v >= 0
    /\ IsMap(ev, "delta")
    /\ IsStr(ev["delta"].v, "type")
    /\ ev["delta"].v["type"].v \in
           {S("text_delta"), S("tool_use_delta"), S("tool_result_delta")}

\* the segment kind a delta sub-kind is for
KindFor(deltaType) ==
    IF deltaType = S("text_delta") THEN S("text")
    ELSE IF deltaType = S("tool_use_delta") THEN S("tool_use")
    ELSE S("tool_result")

\* C16: a delta at the index of an existing segment whose kind is not the
\* delta's makes the fold fail: the producer goes to send the process
\* error.
C16_MismatchedDeltaFails ==
    [][(/\ LineRead
        /\ IsKindedDelta(TraceTable[last'])
        /\ IndexOf(TraceTable[last']) < Len(response.Content)
        /\ response.Content[IndexOf(TraceTable[last']) + 1].Type #
               KindFor(TraceTable[last'].ev["delta"].v["type"].v)) =>
         (pc' = "sendErr" /\ err' = ProcessError)]_vars

\* C18: a blank line or a line that does not begin with data: changes
\* nothing: the Response, the error, the channel, the consumer and the
\* sink calls are what they were and the producer is back at its loop.
C18_NonDataLinesIgnored ==
    [][(LineRead /\ TraceTable[last'].kind \in {"blank", "comment"}) =>
         /\ pc' = "scan" /\ response' = response /\ err' = err
         /\ sunk' = sunk /\ sinkFailed' = sinkFailed
         /\ UNCHANGED <<eventChan, closed, cpc, lastResponse, outcome>>]_vars

C18_Witness ==
    /\ last >= 1 /\ TraceTable[last].kind = "comment"
    /\ pc = "scan" /\ nRead >= 3 /\ response.Content # <<>> /\ sunk # <<>>
    /\ lastResponse # <<>>

\* ------------------------------------------------- well-formed streams
\* A third specification reads well-formed streams only, long enough for
\* two segments: a line is read only if the monitor WfNext accepts it.
MaxWfLines == 7

WfTable == <<
    BlankLine,
    DataLine(EvPing),
    DataLine(EvMessageStart),
    DataLine(EvBlockStartText(0)),
    DataLine(EvBlockStartText(1)),
    DataLine(EvTextDelta(0, <<"a">>)),
    DataLine(EvTextDelta(0, <<"b">>)),
    DataLine(EvTextDelta(1, <<"c">>)),
    DataLine(EvBlockStop(0)),
    DataLine(EvMessageDelta),
    DataLine(EvMessageStop) >>

ScanWf(i, sinkFails) ==
    /\ WfNext(hist, WfTable[i]).phase # "bad"
    /\ ScanOn(WfTable, MaxWfLines, FALSE, i, sinkFails)
    /\ UNCHANGED <<log, event>>

NextWf ==
    \/ \E i \in 1..Len(WfTable), sinkFails \in BOOLEAN : ScanWf(i, sinkFails)
    \/ ScanEOF
    \/ ScanFail
    \/ SendResponse
    \/ SendError
    \/ Close
    \/ RecvResponse
    \/ RecvError
    \/ RecvClosed

SpecWf == Init /\ [][NextWf]_vars

C17_ReadFailureIsFatal ==
    (Returned /\ readFailed) => outcome = [Response |-> <<>>, Err |-> ScanError]

\* the read fails after a message_stop was folded and handed over
C17_Witness ==
    /\ Returned /\ readFailed /\ stopResp # <<>> /\ lastResponse # <<>>
    /\ outcome = [Response |-> <<>>, Err |-> ScanError]

\* C19: the run can only come to a stop with the producer done, the
\* channel closed, and the consumer returned: neither side is left
\* waiting and none has vanished before its end.
C19_StopsOnlyWhenBothEnded ==
    (~ENABLED Next) => (pc = "done" /\ closed /\ cpc = "returned")

\* ------------------------------------------------------- cancellation
\* A fourth specification lets the caller cancel ctx at any time before
\* the operation returns.  Nothing in the code reads ctx: it is handed
\* to StreamFunc, which may fail or not, and the reader may fail or not.
MaxCancelLines == 3

Cancel ==
    /\ ~cancelled /\ cpc = "range"
    /\ cancelled' = TRUE
    /\ UNCHANGED <<pc, response, err, eventChan, closed, cpc, lastResponse,
                   outcome, streaming, shared, event>>
    /\ UNCHANGED <<nRead, sunk, sinkFailed, badLine, allPing, deltaTexts,
                   stopResp, hist, run, last, readFailed, nc, log>>

ScanCancel(i, sinkFails) ==
    ScanOn(LineTable, MaxCancelLines, FALSE, i, sinkFails) /\ UNCHANGED <<log, event>>

NextCancel ==
    \/ Cancel
    \/ \E i \in 1..Len(LineTable), sinkFails \in BOOLEAN : ScanCancel(i, sinkFails)
    \/ ScanEOF
    \/ ScanFail
    \/ SendResponse
    \/ SendError
    \/ Close
    \/ RecvResponse
    \/ RecvError
    \/ RecvClosed

SpecCancel == Init /\ [][NextCancel]_vars

\* C20: once ctx is cancelled no further line is read and folded.
C20_NoFoldAfterCancel ==
    [][cancelled => (nRead' = nRead /\ response' = response)]_vars

\* ------------------------------------------- the Response handed over
\* C21: no line the producer reads and folds changes the Response the
\* consumer holds since the last message_stop.
C21_HandedResponseNeverChanges ==
    [][LineRead => lastResponse' = lastResponse]_vars

\* ------------------------------------------------- NewClient, checked
\* A fifth specification calls NewClient with up to MaxOpts options drawn
\* from Options, the environment variable set or not.
MaxOpts == 3

Opt(op, arg) == [op |-> op, arg |-> arg]

Options ==
    {Opt("WithAPIKey", S("test-key")), Opt("WithAPIKey", S("other-key")),
     Opt("WithAPIKey", <<>>),
     Opt("WithBaseURL", S("https://custom.anthropic.com")),
     Opt("WithAPIVersion", S("2024-01-01")),
     Opt("WithHTTPClient", <<>>), Opt("WithHTTPClient", <<[Timeout |-> 0]>>),
     Opt("WithTimeout", 30),
     Opt("Failing", <<>>)}

streamVars ==
    <<pc, response, err, eventChan, closed, cpc, lastResponse, outcome,
      streaming, nRead, sunk, sinkFailed, badLine, allPing, deltaTexts,
      stopResp, hist, run, last, readFailed, cancelled, shared, log, event>>

InitClient ==
    /\ pc = "scan" /\ response = ZeroMessage /\ err = NoErr
    /\ eventChan = <<>> /\ closed = FALSE
    /\ cpc = "range" /\ lastResponse = <<>> /\ outcome = NoOutcome
    /\ streaming = FALSE
    /\ nRead = 0 /\ sunk = <<>> /\ sinkFailed = FALSE /\ badLine = FALSE
    /\ allPing = TRUE /\ deltaTexts = <<>> /\ stopResp = <<>> /\ hist = InitHist /\ run = NoRun
    /\ last = 0 /\ readFailed = FALSE /\ cancelled = FALSE
    /\ shared = FALSE
    /\ log = <<>> /\ event = <<>>
    /\ \E env \in {<<>>, S("env-key")} :
           nc = [NcIdle EXCEPT !.pc = "loop", !.env = env]

\* for _, opt := range opts { if err := opt(client); err != nil { return nil, err } }
NcApply(opt) ==
    /\ nc.pc = "loop" /\ Len(nc.opts) < MaxOpts
    /\ LET r == ApplyOption(opt, nc.env, nc.client) IN
       nc' = [nc EXCEPT
                !.opts = Append(@, opt),
                !.client = r.client,
                !.pc = IF r.crash THEN "crashed"
                       ELSE IF r.err # NoErr THEN "returned" ELSE "loop",
                !.ret = IF ~r.crash /\ r.err # NoErr
                        THEN [client |-> <<>>, err |-> r.err] ELSE @]
    /\ UNCHANGED streamVars

\* the loop is over: the API key check and the return
NcReturn ==
    /\ nc.pc = "loop"
    /\ nc' = [nc EXCEPT
                !.pc = "returned",
                !.ret = IF APIKeyMissing(nc.client)
                        THEN [client |-> <<>>, err |-> "API key is required"]
                        ELSE [client |-> <<nc.client>>, err |-> NoErr]]
    /\ UNCHANGED streamVars

NextClient ==
    \/ \E opt \in Options : NcApply(opt)
    \/ NcReturn

SpecClient == InitClient /\ [][NextClient]_vars

\* the option fails: a WithAPIKey without a key while the environment
\* variable is not set, or the caller's failing option
OptionFails(opt, env) ==
    \/ opt.op = "Failing"
    \/ opt.op = "WithAPIKey" /\ opt.arg = <<>> /\ env = <<>>

\* the argument of the last option `op` among opts, or `default`
RECURSIVE LastArg(_, _, _)
LastArg(opts, op, default) ==
    IF opts = <<>> THEN default
    ELSE IF opts[Len(opts)].op = op THEN opts[Len(opts)].arg
    ELSE LastArg(SubSeq(opts, 1, Len(opts) - 1), op, default)

\* the key the options give: that of the last WithAPIKey, the environment
\* variable standing in for an empty one
GivenKey(opts, env) ==
    LET k == LastArg(opts, "WithAPIKey", <<"none">>) IN
    IF k = <<"none">> THEN <<>> ELSE IF k = <<>> THEN env ELSE k

\* C22: NewClient returns an error and no client if an option failed or
\* if no API key is set after the options; otherwise it returns no error
\* and a client with the key given last and with the base URL given last,
\* the default one if none was given.
C22_NewClientOutcome ==
    nc.pc = "returned" =>
        IF \/ \E k \in 1..Len(nc.opts) : OptionFails(nc.opts[k], nc.env)
           \/ GivenKey(nc.opts, nc.env) = <<>>
        THEN nc.ret.err # NoErr /\ nc.ret.client = <<>>
        ELSE /\ nc.ret.err = NoErr /\ nc.ret.client # <<>>
             /\ nc.ret.client[1].APIKey = GivenKey(nc.opts, nc.env)
             /\ nc.ret.client[1].baseURL =
                    LastArg(nc.opts, "WithBaseURL", defaultBaseURL)

\* two keys given one after the other, the second one kept, default URL
C22_Witness ==
    /\ nc.pc = "returned" /\ nc.ret.err = NoErr
    /\ Len(nc.opts) = 2
    /\ nc.opts[1] = Opt("WithAPIKey", S("test-key"))
    /\ nc.opts[2] = Opt("WithAPIKey", S("other-key"))
    /\ nc.ret.client[1].APIKey = S("other-key")
    /\ nc.ret.client[1].baseURL = defaultBaseURL

\* ------------------------------------------------ segments and deltas
\* the line carries a content_block_start of a declared kind, index >= 0
IsBlockStart(entry) ==
    LET ev == entry.ev IN
    /\ EvType(entry) = S("content_block_start")
    /\ IsNum(ev, "index") /\ ev["index"].v >= 0
    /\ IsMap(ev, "content_block")
    /\ IsStr(ev["content_block"].v, "type")
    /\ ev["content_block"].v["type"].v \in {S("text"), S("tool_use"), S("tool_result")}

\* C23: a content_block_start of a declared kind whose index already holds
\* a segment leaves the number of segments unchanged.
C23_StartAtExistingIndexAddsNothing ==
    [][(/\ LineRead
        /\ IsBlockStart(TraceTable[last'])
        /\ IndexOf(TraceTable[last']) < Len(response.Content)) =>
         Len(response'.Content) = Len(response.Content)]_vars

\* C24: when a text delta has created a segment, the same text delta read
\* again right after it creates no further segment.
C24_TextDeltaKeepsItsSegment ==
    pc = "scan" =>
        \A i \in 1..Len(LineTable) :
            IsTextDelta(LineTable[i]) =>
                LET once == LoopBody(LineTable[i].chunks, FALSE, FALSE, response)
                    twice == LoopBody(LineTable[i].chunks, FALSE, FALSE, once.response)
                IN Len(once.response.Content) > Len(response.Content) =>
                       Len(twice.response.Content) = Len(once.response.Content)

\* the line carries a delta of sub-kind `sub` with a numeric index
IsDeltaOf(entry, sub) ==
    LET ev == entry.ev IN
    /\ EvType(entry) = S("content_block_delta")
    /\ IsNum(ev, "index")
    /\ IsMap(ev, "delta")
    /\ IsStr(ev["delta"].v, "type") /\ ev["delta"].v["type"].v = sub

\* the Response has a segment of kind `kind` at index k
HasSegment(resp, k, kind) ==
    k >= 0 /\ k < Len(resp.Content) /\ resp.Content[k + 1].Type = kind

\* C25: a tool-argument delta whose index has no segment, or a segment
\* that is not a tool_use segment, makes the fold fail: the producer goes
\* to send the process error.
C25_ToolDeltaWithoutToolSegmentFails ==
    [][(/\ LineRead
        /\ IsDeltaOf(TraceTable[last'], S("tool_use_delta"))
        /\ ~HasSegment(response, IndexOf(TraceTable[last']), S("tool_use"))) =>
         (pc' = "sendErr" /\ err' = ProcessError)]_vars

\* the arguments a tool_use segment holds, none given counting as empty
ArgumentsOrNone(resp, k) ==
    IF HasArguments(resp, k) THEN Arguments(resp, k) ELSE <<>>

\* C26: a tool-argument delta at a tool_use segment, whatever input its
\* content_block_start had, folds without error and leaves as arguments
\* the merge of the old ones (none counting as empty) with the delta's.
C26_ToolDeltaMergesWhateverTheStart ==
    [][(/\ LineRead
        /\ IsToolArgDelta(TraceTable[last'])
        /\ HasSegment(response, IndexOf(TraceTable[last']), S("tool_use"))) =>
         LET k == IndexOf(TraceTable[last'])
             d == TraceTable[last'].ev["delta"].v["input"].v
             old == ArgumentsOrNone(response, k)
         IN /\ pc' # "crashed"
            /\ (pc' = "sendErr" => sinkFailed' # sinkFailed)
            /\ HasArguments(response', k)
            /\ DOMAIN Arguments(response', k) = (DOMAIN old) \cup (DOMAIN d)
            /\ \A key \in DOMAIN d : Arguments(response', k)[key] = d[key]
            /\ \A key \in (DOMAIN old) \ (DOMAIN d) :
                   Arguments(response', k)[key] = old[key]]_vars

\* C27: a tool-output delta that carries an output text appends it to the
\* output of the tool_result segment at its index, and makes the fold fail
\* if there is no such segment.
C27_ToolOutputDeltaAppends ==
    [][(/\ LineRead
        /\ IsDeltaOf(TraceTable[last'], S("tool_result_delta"))
        /\ IsStr(TraceTable[last'].ev["delta"].v, "output")) =>
         LET k == IndexOf(TraceTable[last'])
             out == TraceTable[last'].ev["delta"].v["output"].v
         IN IF HasSegment(response, k, S("tool_result"))
            THEN response'.Content[k + 1].ToolOutput[1].Output =
                     response.Content[k + 1].ToolOutput[1].Output \o out
            ELSE pc' = "sendErr" /\ err' = ProcessError]_vars

\* -------------------------------------------- message_start, message_delta
\* A sixth specification reads the lines of FoldTable: message_start and
\* message_delta events with their fields present, absent or of another
\* type, events without a type string, payload lines with and without a
\* space after the marker, the no-op events and the events of a text
\* segment.
MaxFoldLines == 3

EvMessageStartWith(message) == [type |-> TypeOf("message_start"), message |-> message]

ValidMessage ==
    [id |-> JStr(S("msg_123")), model |-> JStr(S("claude-3-sonnet-20240229")),
     role |-> JStr(S("assistant")), type |-> JStr(S("message")),
     usage |-> JMap([input_tokens |-> JNum(10)])]

EvMessageDeltaWith(delta, usage) ==
    [type |-> TypeOf("message_delta"), delta |-> delta, usage |-> usage]

\* events without a type string: no type, a number, null
EvNoType == [index |-> JNum(0), content_block |-> JMap([type |-> JStr(S("text"))])]
EvTypeNumber == [type |-> JNum(1)]
EvTypeNull == [type |-> JNull, index |-> JNum(0)]

\* the payload `null`: it decodes without error into the nil map
NullLine ==
    [chunks |-> <<Lit("data:"), Lit(" "), Json(JNull)>>, kind |-> "null", ev |-> <<>>]

\* two spaces after the marker
TwoSpaceLine(ev) ==
    [chunks |-> <<Lit("data:"), Lit(" "), Lit(" "), Json(JMap(ev))>>,
     kind |-> "event", ev |-> ev]

FoldTable == <<
    DataLine(EvMessageStartWith(JMap(ValidMessage))),
    DataLine([type |-> TypeOf("message_start")]),
    DataLine(EvMessageStartWith(JStr(S("invalid")))),
    DataLine(EvMessageStartNoUsage),
    DataLine(EvMessageStartWith(JMap([id |-> JStr(S("msg_2")),
                                      usage |-> JStr(S("invalid"))]))),
    DataLine(EvMessageStartWith(JMap([id |-> JStr(S("msg_2")),
                                      usage |-> JMap([output_tokens |-> JNum(1)])]))),
    DataLine(EvMessageStartWith(JMap([id |-> JStr(S("msg_2")),
                                      usage |-> JMap([input_tokens |-> JStr(S("invalid"))])]))),
    DataLine(EvMessageStartWith(JMap([ValidMessage EXCEPT !.id = JNum(7)]))),
    DataLine(EvMessageDelta),
    DataLine(EvMessageDeltaNoUsage),
    DataLine(EvMessageDeltaWith(JMap([stop_reason |-> JStr(S("end_turn"))]),
                                JMap([output_tokens |-> JStr(S("invalid"))]))),
    DataLine(EvMessageDeltaWith(JMap([stop_reason |-> JStr(S("end_turn"))]),
                                JMap([input_tokens |-> JNum(1)]))),
    DataLine(EvBlockStartText(0)),
    DataLine(EvTextDelta(0, <<"a">>)),
    DataLine(EvMessageStop),
    DataLine(EvNoType),
    DataLine(EvTypeNumber),
    DataLine(EvTypeNull),
    NullLine,
    NoSpaceLine(EvMessageStop),
    NoSpaceLine(EvBlockStartText(0)),
    TwoSpaceLine(EvBlockStartText(0)),
    MalformedLine,
    DataLine(EvPing),
    DataLine(EvBlockStop(0)),
    DataLine([type |-> TypeOf("content_block_stop")]),
    DataLine(EvMessageStartWith(JMap([ValidMessage EXCEPT
        !.id = JStr(S("msg_456")), !.role = JStr(S("user")),
        !.model = JStr(S("claude-3-opus-20240229"))]))) >>

ScanFold(i, sinkFails) ==
    ScanOn(FoldTable, MaxFoldLines, TRUE, i, sinkFails) /\ UNCHANGED <<log, event>>

NextFold ==
    \/ \E i \in 1..Len(FoldTable), sinkFails \in BOOLEAN : ScanFold(i, sinkFails)
    \/ ScanEOF
    \/ ScanFail
    \/ SendResponse
    \/ SendError
    \/ Close
    \/ RecvResponse
    \/ RecvError
    \/ RecvClosed

SpecFold == Init /\ [][NextFold]_vars

\* the message of a message_start has what the fold requires
MessageComplete(ev) ==
    /\ IsMap(ev, "message")
    /\ IsMap(ev["message"].v, "usage")
    /\ IsNum(ev["message"].v["usage"].v, "input_tokens")

\* C28: a message_start whose message is a mapping with a usage mapping
\* that has a numeric input_tokens sets the id, role, model and type the
\* message gives and the input tokens; any other message_start makes the
\* fold fail and leaves the Response as it was.
C28_MessageStartPopulatesOrFails ==
    [][(LineRead /\ EvType(FoldTable[last']) = S("message_start")) =>
         LET ev == FoldTable[last'].ev IN
         IF MessageComplete(ev)
         THEN LET m == ev["message"].v IN
              /\ pc' = "scan" /\ err' = NoErr
              /\ IsStr(m, "id") => response'.ID = m["id"].v
              /\ IsStr(m, "role") => response'.Role = m["role"].v
              /\ IsStr(m, "model") => response'.Model = m["model"].v
              /\ IsStr(m, "type") => response'.Type = m["type"].v
              /\ response'.Usage.InputTokens = m["usage"].v["input_tokens"].v
         ELSE /\ pc' = "sendErr" /\ err' = ProcessError
              /\ response' = response]_vars

\* a complete message_start folded over the Response of another one
C28_Witness ==
    /\ last >= 1 /\ EvType(FoldTable[last]) = S("message_start")
    /\ MessageComplete(FoldTable[last].ev)
    /\ pc = "scan" /\ nRead >= 2
    /\ response.ID = S("msg_123") /\ response.Role = S("assistant")
    /\ response.Model = S("claude-3-sonnet-20240229")
    /\ response.Type = S("message") /\ response.Usage.InputTokens = 10
    /\ response.StopReason # <<>>

\* a field of the mapping m that is there and is not a string
NotAString(m, key) == key \in DOMAIN m /\ m[key].t # "str"

\* C29: a message_delta whose usage has an output_tokens that is not a
\* number, and a message_start whose message has an id, role or model
\* that is not a string, make the fold fail.
C29_WrongTypeIsFoldError ==
    [][(/\ LineRead
        /\ LET ev == FoldTable[last'].ev IN
           \/ /\ EvType(FoldTable[last']) = S("message_delta")
              /\ IsMap(ev, "delta") /\ IsMap(ev, "usage")
              /\ "output_tokens" \in DOMAIN ev["usage"].v
              /\ ~IsNum(ev["usage"].v, "output_tokens")
           \/ /\ EvType(FoldTable[last']) = S("message_start")
              /\ MessageComplete(ev)
              /\ \E key \in {"id", "role", "model"} :
                     NotAString(ev["message"].v, key)) =>
         (pc' = "sendErr" /\ err' = ProcessError)]_vars

\* C30: a line whose fold returns an error leaves the Response as it was.
C30_FailedFoldChangesNothing ==
    [][(LineRead /\ err' = ProcessError) => response' = response]_vars

\* ------------------------------------------------ events without a type
\* the line decodes to an event (the nil map of `null` included) that has
\* no type, or a type that is not a string
IsUntyped(entry) == entry.kind \in {"event", "null"} /\ ~IsStr(entry.ev, "type")

\* C31: once a line whose event has no type string has been read, the
\* producer is on its error path with the process error and never back at
\* its loop, and the operation returns that error and a nil Response.
C31_UntypedEventIsFatal ==
    (last >= 1 /\ IsUntyped(FoldTable[last])) =>
        /\ err = ProcessError
        /\ pc \in {"sendErr", "sending", "close", "done"}
        /\ Returned => outcome = [Response |-> <<>>, Err |-> ProcessError]

\* an event without type read after a Response was handed over
C31_Witness ==
    /\ last >= 1 /\ FoldTable[last].ev = EvNoType
    /\ Returned /\ nRead = 3 /\ lastResponse # <<>>
    /\ lastResponse[1].Content # <<>>
    /\ outcome = [Response |-> <<>>, Err |-> ProcessError]

\* ------------------------------------------------------- payload lines
\* the line is the marker data:, directly or after spaces followed by the
\* JSON text of an event
IsPayloadLine(entry) == entry.kind \in {"event", "nospace"}

\* C32: a line that begins with data: and goes on, with or without a
\* space, with a valid payload is decoded to that payload and folded: the
\* producer's Response, error and next step are those of the fold of that
\* event.
C32_PayloadDecodedWithOrWithoutSpace ==
    [][(LineRead /\ IsPayloadLine(FoldTable[last'])) =>
         \E sinkFails \in BOOLEAN :
             LET r == Processed(processStreamEvent(FoldTable[last'].ev, streaming,
                                                   sinkFails, response))
             IN pc' = r.pc /\ response' = r.response /\ err' = r.err]_vars

\* ------------------------------------------------------ set-once fields
\* C33: once the id, the role, the model or the stop reason of the
\* Response holds a value, no line read later changes it.
C33_IdentityAndStopReasonSetOnce ==
    [][LineRead =>
         /\ response.ID # <<>> => response'.ID = response.ID
         /\ response.Role # <<>> => response'.Role = response.Role
         /\ response.Model # <<>> => response'.Model = response.Model
         /\ response.StopReason # <<>> =>
                response'.StopReason = response.StopReason]_vars

\* --------------------------------------------------------- no-op events
IsNoOp(entry) == EvType(entry) \in {S("ping"), S("content_block_stop")}

\* C34: a ping or content_block_stop line changes nothing: the Response,
\* the error, the channel, the consumer and the sink calls are what they
\* were and the producer is back at its loop.
C34_PingAndBlockStopAreNoOps ==
    [][(LineRead /\ IsNoOp(FoldTable[last'])) =>
         /\ pc' = "scan" /\ response' = response /\ err' = NoErr
         /\ sunk' = sunk /\ sinkFailed' = sinkFailed
         /\ UNCHANGED <<eventChan, closed, cpc, lastResponse, outcome>>]_vars

\* a content_block_stop read after a delta went to the sink and a
\* Response was handed over
C34_Witness ==
    /\ last >= 1 /\ EvType(FoldTable[last]) = S("content_block_stop")
    /\ pc = "scan" /\ nRead = 3 /\ sunk # <<>> /\ lastResponse # <<>>
    /\ response.Content # <<>> /\ eventChan = <<>>

\* ------------------------------------------------- what an event changes
\* the segment at index k, if there is one
SegAt(resp, k) ==
    IF k >= 0 /\ k < Len(resp.Content) THEN <<resp.Content[k + 1]>> ELSE <<>>

\* `after` differs from `before` only in the part of the Response that
\* the event of the line is about
OwnPartOnly(entry, before, after) ==
    LET ty == EvType(entry) IN
    /\ Len(after.Content) >= Len(before.Content)
    /\ ty = S("message_start") =>
           /\ after.Content = before.Content
           /\ after.StopReason = before.StopReason
           /\ after.Usage.OutputTokens = before.Usage.OutputTokens
    /\ ty = S("message_delta") =>
           /\ after.ID = before.ID /\ after.Role = before.Role
           /\ after.Model = before.Model
           /\ after.Content = before.Content
           /\ after.Usage.InputTokens = before.Usage.InputTokens
    /\ ty \in {S("content_block_start"), S("content_block_delta")} =>
           /\ after.ID = before.ID /\ after.Role = before.Role
           /\ after.Model = before.Model
           /\ after.StopReason = before.StopReason
           /\ after.Usage = before.Usage
           /\ \A k \in 0..(Len(after.Content) - 1) :
                  (IsNum(entry.ev, "index") /\ k = IndexOf(entry))
                  \/ SegAt(after, k) = SegAt(before, k)

\* C35: whatever the Response, the next line leaves everything but the
\* part of its event as it was: message_start the content, stop reason
\* and output tokens; message_delta the id, role, model, content and input
\* tokens; a content_block_start or content_block_delta the id, role,
\* model, stop reason, usage and every segment but the one at its index;
\* and the number of segments does not decrease.
C35_EachEventChangesItsOwnPart ==
    pc = "scan" =>
        \A sinkFails \in BOOLEAN :
            /\ \A i \in 1..Len(TraceTable) :
                   OwnPartOnly(TraceTable[i], response,
                       LoopBody(TraceTable[i].chunks, streaming, sinkFails, response).response)
            /\ \A i \in 1..Len(FoldTable) :
                   OwnPartOnly(FoldTable[i], response,
                       LoopBody(FoldTable[i].chunks, streaming, sinkFails, response).response)

\* ------------------------------------------------------ the logged run
\* A seventh specification reads the lines of LogTable and keeps in `log`
\* every line read together with what StreamFunc returns for it, so that
\* what the two sides arrive at can be compared with the lines taken one
\* after the other.  Here the body of the consumer's loop is a step of
\* its own: the producer runs on while the consumer has taken an item and
\* has not yet looked at it.
MaxLogLines == 4

LogTable == <<
    MalformedLine,
    DataLine(EvBlockStartText(0)),
    DataLine(EvBlockStartToolUse(0)),
    DataLine(EvTextDelta(0, <<"a">>)),
    DataLine(EvTextDelta(0, <<"b">>)),
    DataLine(EvTextDeltaNoText(0)),
    DataLine(EvToolUseDelta(0)),
    DataLine(EvMessageDeltaNoUsage),
    DataLine(EvMessageStop) >>

\* The item the consumer has taken (item) and whether the Content of its
\* Response has the backing array of the producer's (shared), once the
\* producer has folded a line that took its response from `before` to
\* `after`.
TakenItem(ev, before, after) ==
    IF ev = <<>> \/ ev[1].item.Response = <<>> THEN ev
    ELSE <<[item |-> [ev[1].item EXCEPT
                        !.Response = Aliased(@, ev[1].shared, after)],
            shared |-> ev[1].shared /\ ~Reallocates(before, after)]>>

\* what StreamFunc returns is part of the input only where it is called
ScanLog(i, sinkFails) ==
    /\ sinkFails =>
           pc = "scan" /\ LoopBody(LogTable[i].chunks, streaming, TRUE, response).sunk # <<>>
    /\ ScanOn(LogTable, MaxLogLines, TRUE, i, sinkFails)
    /\ log' = Append(log, [line |-> i, sinkFails |-> sinkFails])
    /\ event' = TakenItem(event, response, response')

\* for event := range eventChan: the consumer takes the item, the send
\* completes and the producer goes on
Receive ==
    /\ cpc = "range" /\ pc = "sending" /\ eventChan # <<>>
    /\ event' = <<[item |-> eventChan[1], shared |-> TRUE]>>
    /\ cpc' = "body"
    /\ eventChan' = <<>>
    /\ pc' = IF eventChan[1].Err = NoErr THEN "scan" ELSE AfterErrorSent
    /\ UNCHANGED <<response, err, closed, lastResponse, outcome, streaming, shared>>
    /\ UNCHANGED ghosts

\* if event.Err != nil { return nil, event.Err }
BodyError ==
    /\ cpc = "body" /\ event[1].item.Err # NoErr
    /\ outcome' = ReturnError(event[1].item, lastResponse)
    /\ cpc' = "returned"
    /\ UNCHANGED <<pc, response, err, eventChan, closed, lastResponse, streaming,
                   shared, event>>
    /\ UNCHANGED ghosts

\* lastResponse = event.Response
BodyAssign ==
    /\ cpc = "body" /\ event[1].item.Err = NoErr
    /\ lastResponse' = event[1].item.Response
    /\ shared' = event[1].shared
    /\ cpc' = "range"
    /\ event' = <<>>
    /\ UNCHANGED <<pc, response, err, eventChan, closed, outcome, streaming>>
    /\ UNCHANGED ghosts

NextLog ==
    \/ \E i \in 1..Len(LogTable), sinkFails \in BOOLEAN : ScanLog(i, sinkFails)
    \/ ScanEOF
    \/ ScanFail
    \/ SendResponse
    \/ SendError
    \/ Close
    \/ Receive
    \/ BodyError
    \/ BodyAssign
    \/ RecvClosed

SpecLog == Init /\ [][NextLog]_vars

\* The lines of a log taken one after the other by a single thread: the
\* Response folded so far, the Response handed over at the last
\* message_stop as it shows now (held, shared: see Aliased), the fragments
\* given to StreamFunc, and why the run stopped (stop: the error sent, or
\* "panic").
SeqInit ==
    [response |-> ZeroMessage, held |-> <<>>, shared |-> FALSE, sunk |-> <<>>,
     stop |-> NoErr]

SeqStep(st, e, sinkSet) ==
    LET it == LoopBody(LogTable[e.line].chunks, sinkSet, e.sinkFails, st.response) IN
    [response |-> it.response,
     held |-> IF it.pc = "sendResp" THEN <<it.response>>
              ELSE Aliased(st.held, st.shared, it.response),
     shared |-> IF it.pc = "sendResp" THEN TRUE
                ELSE st.shared /\ ~Reallocates(st.response, it.response),
     sunk |-> st.sunk \o it.sunk,
     stop |-> IF it.pc = "crashed" THEN "panic" ELSE it.err]

RECURSIVE SeqRun(_, _, _)
SeqRun(st, es, sinkSet) ==
    IF es = <<>> \/ st.stop # NoErr THEN st
    ELSE SeqRun(SeqStep(st, Head(es), sinkSet), Tail(es), sinkSet)

\* what the operation returns for a run of the lines one after the other
SeqOutcome(st, failedRead) ==
    IF st.stop # NoErr THEN [Response |-> <<>>, Err |-> st.stop]
    ELSE IF failedRead THEN [Response |-> <<>>, Err |-> ScanError]
    ELSE [Response |-> st.held, Err |-> NoErr]

\* the step puts an item on the channel; the step takes the item off
Sends == eventChan = <<>> /\ eventChan' # <<>>
Receives == eventChan # <<>> /\ eventChan' = <<>>

\* C36: the Response of the producer is at every moment the fold of the
\* lines read so far in the order they were read; a line is read only
\* when no item is on the channel; an item is put on the empty channel
\* only, it is the Response or the error of the line read last, and the
\* producer stays where it is until the item is received; the consumer
\* takes the items one by one, each when it was sent and only after it is
\* through with the one before: a Response becomes its last Response, an
\* error its result.
C36_FoldedAndHandedInOrder ==
    [][/\ response' = SeqRun(SeqInit, log', streaming).response
       /\ LineRead => (eventChan = <<>> /\ pc = "scan")
       /\ Len(eventChan') <= 1
       /\ eventChan' # eventChan => (Sends \/ Receives)
       /\ Sends =>
              /\ pc' = "sending"
              /\ eventChan'[1] \in {MessageEvent(<<response>>, NoErr),
                                    MessageEvent(<<>>, err)}
              /\ eventChan'[1].Err = SeqRun(SeqInit, log, streaming).stop
                 \/ (readFailed /\ eventChan'[1].Err = ScanError)
       /\ (pc = "sending" /\ ~Receives) => (pc' = "sending" /\ nRead' = nRead)
       /\ Receives =>
              /\ cpc = "range" /\ cpc' = "body"
              /\ event' = <<[item |-> eventChan[1], shared |-> TRUE]>>
       /\ (cpc = "body" /\ cpc' # "body") =>
              IF event[1].item.Err = NoErr
              THEN lastResponse' = event[1].item.Response /\ cpc' = "range"
              ELSE outcome'.Err = event[1].item.Err /\ cpc' = "returned"]_vars

\* two Responses handed over one after the other, then an error
C36_Witness ==
    /\ Len(log) = 4 /\ Returned /\ outcome.Err = ProcessError
    /\ stopResp # <<>> /\ lastResponse # <<>> /\ lastResponse # stopResp
    /\ response.Content # <<>>

\* ------------------------------------------------- the channel's ends
\* C37: an item is put on the channel by the producer only (at one of its
\* sends, before the close) and taken off by the consumer only; the
\* producer closes the channel once, as its last step, with nothing in
\* flight, and has closed it whenever it has ended; it comes to the close
\* from the end of the input or from an error item received (decode,
\* fold or read error), and every error item received leads it there;
\* once closed the channel stays closed and empty.
C37_ChannelClosedOnceByProducer ==
    [][/\ Sends => (pc \in {"sendResp", "sendErr"} /\ ~closed)
       /\ Receives => cpc = "range"
       /\ closed => (closed' /\ eventChan' = <<>> /\ pc' = "done")
       /\ (closed' /\ ~closed) => (pc = "close" /\ eventChan = <<>>)
       /\ pc' = "done" => closed'
       /\ pc \in {"close", "done"} => pc' \in {"close", "done"}
       /\ (Receives /\ eventChan[1].Err # NoErr) => pc' = "close"
       /\ (pc # "close" /\ pc' = "close") =>
              \/ pc = "scan" /\ err = NoErr /\ ~readFailed
              \/ /\ Receives
                 /\ eventChan[1].Err \in {ParseError, ProcessError, ScanError}]_vars

\* closed after a read error that followed a handed-over Response
C37_Witness ==
    /\ pc = "done" /\ closed /\ eventChan = <<>> /\ Returned
    /\ readFailed /\ lastResponse # <<>> /\ nRead = 2

\* ------------------------------------------------- what the consumer does
\* C38: the consumer takes every item: a Response, which is the
\* producer's at a message_stop, replaces the one it held and it goes on;
\* an error makes it return at once nil and that error; it returns
\* otherwise only when the channel is closed and empty, with the Response
\* it received last and no error.  An error item is only sent while the
\* consumer is still receiving, so there is at most one, and nothing is
\* sent or changed in the result once the consumer has returned.
C38_ConsumerReturnsLastOrFirstError ==
    [][/\ (Receives /\ eventChan[1].Err = NoErr) =>
              /\ EvType(FoldTable[last]) = S("message_stop")
              /\ eventChan[1].Response = <<response>>
              /\ lastResponse' = eventChan[1].Response
              /\ cpc' = "range" /\ outcome' = outcome
       /\ (Receives /\ eventChan[1].Err # NoErr) =>
              /\ cpc' = "returned"
              /\ outcome' = [Response |-> <<>>, Err |-> eventChan[1].Err]
       /\ (cpc = "range" /\ cpc' = "returned" /\ ~Receives) =>
              /\ closed /\ eventChan = <<>> /\ pc = "done"
              /\ outcome' = [Response |-> lastResponse, Err |-> NoErr]
       /\ lastResponse' # lastResponse => (Receives \/ LineRead)
       /\ Sends => cpc = "range"
       /\ Returned => (cpc' = "returned" /\ outcome' = outcome /\ eventChan' = <<>>)]_vars

\* two message_stop events with different Responses: the second one's
\* is returned
C38_Witness ==
    /\ Returned /\ outcome.Err = NoErr /\ nRead = 3
    /\ last >= 1 /\ EvType(FoldTable[last]) = S("message_stop")
    /\ stopResp = <<ZeroMessage>>
    /\ outcome.Response = <<response>> /\ response # ZeroMessage

\* ------------------------------------------------------------- totality
\* C39: whatever the Response, the next line either folds or fails with
\* a fold error: with or without a sink, no line makes the producer panic.
C39_FoldIsTotal ==
    pc = "scan" =>
        \A sinkFails \in BOOLEAN :
            /\ \A i \in 1..Len(TraceTable) :
                   LoopBody(TraceTable[i].chunks, streaming, sinkFails, response).pc
                       # "crashed"
            /\ \A i \in 1..Len(LineTable) :
                   LoopBody(LineTable[i].chunks, streaming, sinkFails, response).pc
                       # "crashed"

\* ------------------------------------------- one outcome for one input
\* C40: once the operation has returned, StreamFunc is not called and no
\* line is read any more; and in whatever order the two sides have taken
\* their steps, when the operation returns, what it returns and the
\* fragments StreamFunc was given are those of the logged lines and sink
\* results taken one after the other by a single thread.
C40_SinkQuietAfterReturnOutcomeFixed ==
    [][/\ Returned => (sunk' = sunk /\ nRead' = nRead)
       /\ Returned' =>
              LET st == SeqRun(SeqInit, log', streaming) IN
              /\ sunk' = st.sunk
              /\ outcome' = SeqOutcome(st, readFailed')]_vars

\* StreamFunc was called twice and failed the second time, after a
\* Response had been handed over
C40_Witness ==
    /\ Returned /\ Len(log) = 3 /\ Len(sunk) = 2 /\ sinkFailed
    /\ lastResponse # <<>> /\ outcome.Err = ProcessError
    /\ pc = "done"

====
